---------------------------- MODULE Spec2Model ----------------------------
(***************************************************************************)
(* A model of the inventory-and-order dashboard: the React pages           *)
(* (Products, Low Stock, Orders, Dashboard) and the REST client of         *)
(* src/src/services/api.ts, running against the product/order store they  *)
(* call.  The pages and the REST client are translated from the source.    *)
(* The store behind the REST API (the Stock Ledger and the Order Commit    *)
(* Protocol) is not part of the source files: it is modelled from          *)
(* sections 4.1, 4.3, 5 and 6 of the specification.                        *)
(***************************************************************************)
EXTENDS Integers, Sequences, FiniteSets, TLC

(***************************************************************************)
(* Bounds of the model.                                                    *)
(***************************************************************************)
NumPids == 2        \* product identities the store can hand out
MaxOrders == 2      \* order records the store can hold
MaxLines == 2       \* lines of one order
MaxInFlight == 2    \* answers of GET /products on their way to one page

Pids == 1..NumPids
Reqs == {1, 2}      \* the two clients whose POST /orders may be in flight

(***************************************************************************)
(* Text of a numeric form field: a sequence of characters, as the          *)
(* <input type="number"> hands it to the handlers.                         *)
(***************************************************************************)
Digits == {"0", "1", "2", "3", "4", "5", "6", "7", "8", "9"}

DigitVal(c) ==
    CASE c = "0" -> 0 [] c = "1" -> 1 [] c = "2" -> 2 [] c = "3" -> 3
      [] c = "4" -> 4 [] c = "5" -> 5 [] c = "6" -> 6 [] c = "7" -> 7
      [] c = "8" -> 8 [] c = "9" -> 9

DigitChar(n) ==
    CASE n = 0 -> "0" [] n = 1 -> "1" [] n = 2 -> "2" [] n = 3 -> "3"
      [] n = 4 -> "4" [] n = 5 -> "5" [] n = 6 -> "6" [] n = 7 -> "7"
      [] n = 8 -> "8" [] n = 9 -> "9"

NaN == "NaN"

\* The digits at the head of s, read left to right onto the value acc.
RECURSIVE ParseDigits(_, _)
ParseDigits(s, acc) ==
    IF s = <<>> \/ Head(s) \notin Digits THEN acc
    ELSE ParseDigits(Tail(s), 10 * acc + DigitVal(Head(s)))

\* The text after an optional sign.
Unsigned(s) == IF s # <<>> /\ Head(s) \in {"-", "+"} THEN Tail(s) ELSE s

\* parseInt gives NaN for this text: no digit follows the optional sign.
ParsesToNaN(s) == Unsigned(s) = <<>> \/ Head(Unsigned(s)) \notin Digits

\* JavaScript parseInt (radix 10): an optional sign, then the leading digits;
\* NaN when there is no digit.
ParseInt(s) ==
    IF ParsesToNaN(s) THEN NaN
    ELSE IF Head(s) = "-" THEN 0 - ParseDigits(Unsigned(s), 0)
    ELSE ParseDigits(Unsigned(s), 0)

\* JavaScript parseFloat, on the integer amounts (minor units) the model uses.
ParseFloat(s) == ParseInt(s)

\* Number.prototype.toString on an integer.
RECURSIVE NatToString(_)
NatToString(n) ==
    IF n < 10 THEN <<DigitChar(n)>>
    ELSE NatToString(n \div 10) \o <<DigitChar(n % 10)>>

NumToString(n) == IF n < 0 THEN <<"-">> \o NatToString(0 - n) ELSE NatToString(n)

(***************************************************************************)
(* The store behind the REST API.                                          *)
(***************************************************************************)
NoProduct == [name |-> "", description |-> "", price |-> 0, stock |-> 0,
              lowStockThreshold |-> 0, exists |-> FALSE]

\* stats when null.
NoStats == [totalProducts |-> -1]

\* A request of getStats: not made, awaiting its answer, answered with data.
NoRes == [state |-> "none", data |-> <<>>]
PendingRes == [state |-> "pending", data |-> <<>>]

\* editingProduct / selectedProduct when null.
NoEditing == [id |-> 0]

NoResult == [kind |-> "none", short |-> {}]

\* admittedAt: how many orders the store held when the request was admitted.
IdleReq == [pc |-> "idle", items |-> <<>>, totalPrice |-> 0, held |-> {},
            admittedAt |-> 0, result |-> NoResult]

EmptyForm == [name |-> "", description |-> "", price |-> <<>>, stock |-> <<>>,
              lowStockThreshold |-> <<>>]

VARIABLES
    products,       \* store: product id -> product record (NoProduct: none)
    nextId,         \* store: the next product identity to hand out
    orders,         \* store: the order records, in creation order
    req,            \* POST /orders of each client: position, body, locks, answer
    pProducts,      \* Products page: products (the fetched array)
    pModalOpen,     \* Products page: isModalOpen
    editingProduct, \* Products page: editingProduct (NoEditing: null)
    formData,       \* Products page: formData
    pFetching,      \* Products page: a product-list fetch is outstanding
    pInFlight,      \* Products page: answers of GET /products on their way to it
    lowStockProducts, \* Low Stock page: lowStockProducts
    lModalOpen,     \* Low Stock page: isModalOpen
    selectedProduct, \* Low Stock page: selectedProduct (NoEditing: null)
    newStock,       \* Low Stock page: newStock
    lFetching,      \* Low Stock page: a product-list fetch is outstanding
    oProducts,      \* Orders page: products
    oModalOpen,     \* Orders page: isModalOpen
    orderItems,     \* Orders page: orderItems
    oFetchingProducts, \* Orders page: a product-list fetch is outstanding
    oFetchingOrders, \* Orders page: an order-list fetch is outstanding
    stats,          \* Dashboard: stats (NoStats: null)
    dLoading,       \* Dashboard: loading
    dProductsRes,   \* Dashboard: getStats' GET /products (none, pending, ok)
    dOrdersRes      \* Dashboard: getStats' GET /orders (none, pending, ok)

storeVars == <<products, nextId, orders, req>>
productsPageVars == <<pProducts, pModalOpen, editingProduct, formData, pFetching,
                      pInFlight>>
lowStockPageVars == <<lowStockProducts, lModalOpen, selectedProduct, newStock, lFetching>>
ordersPageVars == <<oProducts, oModalOpen, orderItems, oFetchingProducts, oFetchingOrders>>
dashboardVars == <<stats, dLoading, dProductsRes, dOrdersRes>>
pageVars == <<productsPageVars, lowStockPageVars, ordersPageVars, dashboardVars>>
vars == <<storeVars, pageVars>>

(***************************************************************************)
(* Store operations (specification sections 3, 4.1 and 6).                 *)
(***************************************************************************)
\* POST /products: a new product under a fresh identity.
StoreCreate(data) ==
    /\ nextId <= NumPids
    /\ products' = [products EXCEPT ![nextId] =
                        [name |-> data.name, description |-> data.description,
                         price |-> data.price, stock |-> data.stock,
                         lowStockThreshold |-> data.lowStockThreshold,
                         exists |-> TRUE]]
    /\ nextId' = nextId + 1

\* A product with the given fields replaced (updateProduct's partialFields).
Merge(product, fields) ==
    [f \in DOMAIN product |->
        IF f \in DOMAIN fields THEN fields[f] ELSE product[f]]

\* PUT /products/:id answers NotFound for an identity the store does not hold.
StoreCanUpdate(id) == id \in Pids /\ products[id].exists

StoreUpdate(id, fields) ==
    /\ StoreCanUpdate(id)
    /\ products' = [products EXCEPT ![id] = Merge(products[id], fields)]
    /\ UNCHANGED nextId

\* DELETE /products/:id: the product goes; no order is rewritten.
StoreDelete(id) ==
    /\ StoreCanUpdate(id)
    /\ products' = [products EXCEPT ![id] = NoProduct]
    /\ UNCHANGED nextId

(***************************************************************************)
(* The Order Commit Protocol (specification sections 4.3 and 5): a POST    *)
(* /orders is admitted, takes the locks of its products in ascending       *)
(* productId order, and then checks, decrements and persists in one step.  *)
(***************************************************************************)
Needed(items) == {items[i].productId : i \in DOMAIN items}

\* Total quantity the lines of items ask of product p.
RECURSIVE Demand(_, _)
Demand(items, p) ==
    IF items = <<>> THEN 0
    ELSE (IF Head(items).productId = p THEN Head(items).quantity ELSE 0)
         + Demand(Tail(items), p)

Locked(p) == \E r \in Reqs : p \in req[r].held

InFlight == {r \in Reqs : req[r].pc = "locking"}

\* The locks taken in the order of the request's lines.
NextLockInLineOrder(r) ==
    LET i == CHOOSE k \in DOMAIN req[r].items :
                 req[r].items[k].productId \notin req[r].held
                 /\ \A j \in 1..(k - 1) : req[r].items[j].productId \in req[r].held
    IN  req[r].items[i].productId

\* The lock a request takes next: the smallest productId it does not hold yet.
NextLock(r) ==
    LET todo == Needed(req[r].items) \ req[r].held
    IN  CHOOSE p \in todo : \A q \in todo : p <= q

AcquireLock(r) ==
    /\ req[r].pc = "locking"
    /\ Needed(req[r].items) \ req[r].held # {}
    /\ ~Locked(NextLock(r))
    /\ req' = [req EXCEPT ![r].held = @ \cup {NextLock(r)}]
    /\ UNCHANGED <<products, nextId, orders>>

Missing(items) == {p \in Needed(items) : ~(p \in Pids /\ products[p].exists)}

\* The check made line by line instead of on the product's total demand.
ShortPerLine(items) ==
    {p \in Needed(items) \ Missing(items) :
        \E i \in DOMAIN items :
            items[i].productId = p /\ items[i].quantity > products[p].stock}

Short(items) ==
    {p \in Needed(items) \ Missing(items) : Demand(items, p) > products[p].stock}

\* A commit that trusts the client's pre-check and never looks at the stock.
CommitResultTrusting(items) ==
    IF Missing(items) # {} THEN [kind |-> "ProductNotFound", short |-> {}]
    ELSE IF \E i \in DOMAIN items : items[i].quantity <= 0
         THEN [kind |-> "InvalidQuantity", short |-> {}]
    ELSE [kind |-> "ok", short |-> {}]

\* The typed answer of a commit on the store as it is now.
CommitResult(items) ==
    IF Missing(items) # {} THEN [kind |-> "ProductNotFound", short |-> {}]
    ELSE IF \E i \in DOMAIN items : items[i].quantity <= 0
         THEN [kind |-> "InvalidQuantity", short |-> {}]
    ELSE IF Short(items) # {}
         THEN [kind |-> "InsufficientStock", short |-> Short(items)]
    ELSE [kind |-> "ok", short |-> {}]

\* Each product decremented by its first line only.
DecrementedByFirstLine(items) ==
    [p \in Pids |->
        IF p \in Needed(items)
        THEN LET i == CHOOSE k \in DOMAIN items :
                        items[k].productId = p
                        /\ \A j \in 1..(k - 1) : items[j].productId # p
             IN  [products[p] EXCEPT !.stock = @ - items[i].quantity]
        ELSE products[p]]

\* decrement(productId, amount) of every distinct product of the order.
Decremented(items) ==
    [p \in Pids |->
        IF p \in Needed(items)
        THEN [products[p] EXCEPT !.stock = @ - Demand(items, p)]
        ELSE products[p]]

\* A commit that decrements the products that have enough even when another
\* product of the order has not.
CommitPartial(r) ==
    /\ req[r].pc = "locking"
    /\ Needed(req[r].items) \subseteq req[r].held
    /\ LET res == CommitResult(req[r].items)
       IN  /\ req' = [req EXCEPT ![r].pc = "done", ![r].held = {}, ![r].result = res]
           /\ IF res.kind = "ok"
              THEN /\ products' = Decremented(req[r].items)
                   /\ orders' = Append(orders, [items |-> req[r].items,
                                                totalPrice |-> req[r].totalPrice])
              ELSE /\ products' = [p \in Pids |->
                                     IF res.kind = "InsufficientStock" /\ p \notin res.short
                                     THEN Decremented(req[r].items)[p]
                                     ELSE products[p]]
                   /\ UNCHANGED orders
    /\ UNCHANGED nextId

Commit(r) ==
    /\ req[r].pc = "locking"
    /\ Needed(req[r].items) \subseteq req[r].held
    /\ LET res == CommitResult(req[r].items)
       IN  /\ req' = [req EXCEPT ![r].pc = "done", ![r].held = {}, ![r].result = res]
           /\ IF res.kind = "ok"
              THEN /\ products' = Decremented(req[r].items)
                   /\ orders' = Append(orders, [items |-> req[r].items,
                                                totalPrice |-> req[r].totalPrice])
              ELSE UNCHANGED <<products, orders>>
    /\ UNCHANGED nextId

(***************************************************************************)
(* src/src/services/api.ts                                                 *)
(***************************************************************************)
\* The JSON document GET /products gives for product p: its identity is _id.
StoreDoc(p) ==
    [_id |-> p, name |-> products[p].name, description |-> products[p].description,
     price |-> products[p].price, stock |-> products[p].stock,
     lowStockThreshold |-> products[p].lowStockThreshold]

\* A listing that puts the products an order in flight has locked after the
\* others.
StoreListLockedLast(p) ==
    LET held == {q \in p..NumPids : products[q].exists}
        Rank(q) == 1 + Cardinality({x \in held :
                        \/ Locked(x) = Locked(q) /\ x < q
                        \/ ~Locked(x) /\ Locked(q)})
    IN  [i \in 1..Cardinality(held) |-> StoreDoc(CHOOSE q \in held : Rank(q) = i)]

\* GET /products: the documents of the products held, by identity.
RECURSIVE StoreListFrom(_)
StoreListFrom(p) ==
    IF p > NumPids THEN <<>>
    ELSE (IF products[p].exists THEN <<StoreDoc(p)>> ELSE <<>>) \o StoreListFrom(p + 1)

\* mapProduct: { ...product, id: product._id || product.id }
mapProduct(product) ==
    [f \in DOMAIN product \cup {"id"} |->
        IF f = "id"
        THEN (IF "_id" \in DOMAIN product /\ product._id # 0 THEN product._id
              ELSE product.id)
        ELSE product[f]]

\* productApi.getAll: res.data.map(mapProduct)
productApiGetAll ==
    LET data == StoreListFrom(1) IN [i \in DOMAIN data |-> mapProduct(data[i])]

\* orderApi.create: one POST /orders carrying the whole order.
orderApiCreate(r, orderData) ==
    /\ req[r].pc = "idle"
    /\ Len(orders) + Cardinality(InFlight) < MaxOrders
    /\ req' = [req EXCEPT ![r] = [IdleReq EXCEPT !.pc = "locking",
                                     !.items = orderData.items,
                                     !.admittedAt = Len(orders),
                                     !.totalPrice = orderData.totalPrice]]

\* The JSON document GET /orders gives for the i-th order record; orders are
\* stamped in the order they are committed.
OrderDoc(i) ==
    [_id |-> i, items |-> orders[i].items, totalPrice |-> orders[i].totalPrice,
     createdAt |-> i]

\* The orders in which GET /orders may list the stored orders: the store
\* promises none.
StoredOrderings ==
    {f \in [DOMAIN orders -> DOMAIN orders] :
        \A i, j \in DOMAIN orders : i # j => f[i] # f[j]}

\* mapOrder's item: productId: item.productId || (item.product && ...)
mapOrderItem(item) ==
    [f \in DOMAIN item \cup {"productId"} |->
        IF f = "productId"
        THEN (IF "productId" \in DOMAIN item /\ item.productId # 0 THEN item.productId
              ELSE IF "product" \in DOMAIN item
              THEN (IF "_id" \in DOMAIN item.product /\ item.product._id # 0
                    THEN item.product._id ELSE item.product.id)
              ELSE 0)
        ELSE item[f]]

\* mapOrder: { ...order, id: order._id || order.id, items: order.items.map(...) }
mapOrder(order) ==
    [f \in DOMAIN order \cup {"id"} |->
        IF f = "id"
        THEN (IF "_id" \in DOMAIN order /\ order._id # 0 THEN order._id ELSE order.id)
        ELSE IF f = "items"
        THEN [i \in DOMAIN order.items |-> mapOrderItem(order.items[i])]
        ELSE order[f]]

\* orderApi.getAll: res.data.map(mapOrder), the answer listing the orders in
\* the given ordering.
orderApiGetAll(ordering) == [i \in DOMAIN orders |-> mapOrder(OrderDoc(ordering[i]))]

\* productApi.update: PUT /products/:id with the fields given.
productApiUpdate(id, product) == StoreUpdate(id, product)

\* productApi.create: POST /products.
productApiCreate(product) == StoreCreate(product)

\* productApi.delete: DELETE /products/:id.
productApiDelete(id) == StoreDelete(id)

(***************************************************************************)
(* The browser's validation of a numeric <input>: type="number" keeps only *)
(* the text of a number, required refuses the empty text and min="0" a     *)
(* negative value; the form's onSubmit does not run otherwise.             *)
(***************************************************************************)
IsNumberText(s) ==
    /\ s # <<>>
    /\ LET body == IF Head(s) = "-" THEN Tail(s) ELSE s
       IN  body # <<>> /\ \A i \in DOMAIN body : body[i] \in Digits

NumberInputValid(s) == IsNumberText(s) /\ ParseInt(s) >= 0

(***************************************************************************)
(* src/src/pages/Products.tsx: the Products page.                          *)
(***************************************************************************)
\* The form without its min="0" attributes.
ProductFormValidNoMin(fd) ==
    /\ fd.name # ""
    /\ IsNumberText(fd.price)
    /\ IsNumberText(fd.stock)
    /\ IsNumberText(fd.lowStockThreshold)

\* The Add/Edit Product form: name, price, stock and threshold are required,
\* the three numbers have min="0".
ProductFormValid(fd) ==
    /\ fd.name # ""
    /\ NumberInputValid(fd.price)
    /\ NumberInputValid(fd.stock)
    /\ NumberInputValid(fd.lowStockThreshold)

\* isLowStock with product.stock < product.lowStockThreshold.
isLowStockStrict(product) == product.stock < product.lowStockThreshold

\* isLowStock(product)
isLowStock(product) == product.stock <= product.lowStockThreshold

\* The Status badge of a row of the Products table.
ProductsStatusBadge(product) == IF isLowStock(product) THEN "Low Stock" ELSE "In Stock"

\* fetchProducts, its answer reaching the page as soon as the store gives it:
\* setProducts(response.data).
ProductsFetchArrive ==
    /\ pFetching
    /\ pProducts' = productApiGetAll
    /\ pFetching' = FALSE
    /\ UNCHANGED <<storeVars, pModalOpen, editingProduct, formData, pInFlight,
                   lowStockPageVars, ordersPageVars, dashboardVars>>

\* fetchProducts' GET /products is answered from the store; the answer is on
\* its way to the page, behind or ahead of the answers of earlier fetches.
ProductsFetchAnswered ==
    /\ pFetching
    /\ Len(pInFlight) < MaxInFlight
    /\ pInFlight' = Append(pInFlight, productApiGetAll)
    /\ pFetching' = FALSE
    /\ UNCHANGED <<storeVars, pProducts, pModalOpen, editingProduct, formData,
                   lowStockPageVars, ordersPageVars, dashboardVars>>

\* fetchProducts resumes with the k-th of the answers on their way:
\* setProducts(response.data).
ProductsFetchReceive(k) ==
    /\ k \in DOMAIN pInFlight
    /\ pProducts' = pInFlight[k]
    /\ pInFlight' = [i \in 1..(Len(pInFlight) - 1) |->
                        IF i < k THEN pInFlight[i] ELSE pInFlight[i + 1]]
    /\ UNCHANGED <<storeVars, pModalOpen, editingProduct, formData, pFetching,
                   lowStockPageVars, ordersPageVars, dashboardVars>>

\* handleOpenModal(product): the form is filled from the row's product.
ProductsHandleOpenModalEdit(i) ==
    /\ i \in DOMAIN pProducts
    /\ editingProduct' = pProducts[i]
    /\ formData' = [name |-> pProducts[i].name,
                    description |-> pProducts[i].description,
                    price |-> NumToString(pProducts[i].price),
                    stock |-> NumToString(pProducts[i].stock),
                    lowStockThreshold |-> NumToString(pProducts[i].lowStockThreshold)]
    /\ pModalOpen' = TRUE
    /\ UNCHANGED <<storeVars, pProducts, pFetching, pInFlight,
                   lowStockPageVars, ordersPageVars, dashboardVars>>

\* handleOpenModal(): an empty form for a new product.
ProductsHandleOpenModalNew ==
    /\ editingProduct' = NoEditing
    /\ formData' = EmptyForm
    /\ pModalOpen' = TRUE
    /\ UNCHANGED <<storeVars, pProducts, pFetching, pInFlight,
                   lowStockPageVars, ordersPageVars, dashboardVars>>

\* handleCloseModal
ProductsHandleCloseModal ==
    /\ pModalOpen' = FALSE
    /\ editingProduct' = NoEditing
    /\ formData' = EmptyForm
    /\ UNCHANGED <<storeVars, pProducts, pFetching, pInFlight,
                   lowStockPageVars, ordersPageVars, dashboardVars>>

\* An input's onChange: setFormData({ ...formData, [field]: value }).
ProductsSetField(field, value) ==
    /\ pModalOpen
    /\ formData' = [formData EXCEPT ![field] = value]
    /\ UNCHANGED <<storeVars, pProducts, pModalOpen, editingProduct, pFetching,
                   pInFlight, lowStockPageVars, ordersPageVars, dashboardVars>>

\* After a save: handleCloseModal(); fetchProducts().
ProductsAfterSave ==
    /\ pModalOpen' = FALSE
    /\ editingProduct' = NoEditing
    /\ formData' = EmptyForm
    /\ pFetching' = TRUE
    /\ UNCHANGED <<pProducts, pInFlight, orders, req,
                   lowStockPageVars, ordersPageVars, dashboardVars>>

\* handleSubmit with a check that leaves out the name.
ProductsSubmitUncheckedName(editing, fd) ==
    IF fd.price = <<>> \/ fd.stock = <<>> \/ fd.lowStockThreshold = <<>>
    THEN UNCHANGED vars
    ELSE LET productData == [name |-> fd.name,
                             description |-> fd.description,
                             price |-> ParseFloat(fd.price),
                             stock |-> ParseInt(fd.stock),
                             lowStockThreshold |-> ParseInt(fd.lowStockThreshold)]
         IN  IF editing.id # 0
             THEN IF StoreCanUpdate(editing.id)
                  THEN productApiUpdate(editing.id, productData) /\ ProductsAfterSave
                  ELSE UNCHANGED vars
             ELSE productApiCreate(productData) /\ ProductsAfterSave

\* handleSubmit with the dialog holding `editing` and the form holding `fd`.
ProductsSubmit(editing, fd) ==
    IF fd.name = "" \/ fd.price = <<>> \/ fd.stock = <<>> \/ fd.lowStockThreshold = <<>>
    THEN UNCHANGED vars
    ELSE LET productData == [name |-> fd.name,
                             description |-> fd.description,
                             price |-> ParseFloat(fd.price),
                             stock |-> ParseInt(fd.stock),
                             lowStockThreshold |-> ParseInt(fd.lowStockThreshold)]
         IN  IF editing.id # 0
             THEN IF StoreCanUpdate(editing.id)
                  THEN productApiUpdate(editing.id, productData) /\ ProductsAfterSave
                  ELSE UNCHANGED vars
             ELSE productApiCreate(productData) /\ ProductsAfterSave

\* handleSubmit, run on what the dialog holds by a submit event that the
\* browser has not checked against required and min.
ProductsSubmitEvent ==
    /\ pModalOpen
    /\ ProductsSubmit(editingProduct, formData)

\* handleSubmit, run by the form's onSubmit.
ProductsHandleSubmit ==
    /\ pModalOpen
    /\ ProductFormValid(formData)
    /\ ProductsSubmit(editingProduct, formData)

\* A delete that takes the orders of the product with it.
ProductsDeleteCascade(productId) ==
    IF StoreCanUpdate(productId)
    THEN /\ productApiDelete(productId)
         /\ pFetching' = TRUE
         /\ orders' = SelectSeq(orders,
                LAMBDA o : \A i \in DOMAIN o.items : o.items[i].productId # productId)
         /\ UNCHANGED <<req, pProducts, pModalOpen, editingProduct, formData, pInFlight,
                        lowStockPageVars, ordersPageVars, dashboardVars>>
    ELSE UNCHANGED vars

\* handleDelete(productId)
ProductsDelete(productId) ==
    IF StoreCanUpdate(productId)
    THEN /\ productApiDelete(productId)
         /\ pFetching' = TRUE
         /\ UNCHANGED <<orders, req, pProducts, pModalOpen, editingProduct, formData,
                        pInFlight, lowStockPageVars, ordersPageVars, dashboardVars>>
    ELSE UNCHANGED vars

\* handleDelete from the row of a listed product.
ProductsHandleDelete(i) ==
    /\ i \in DOMAIN pProducts
    /\ ProductsDelete(pProducts[i].id)

(***************************************************************************)
(* src/src/pages/Products.tsx, second component: the Low Stock page.       *)
(***************************************************************************)
\* The filter with product.stock < product.lowStockThreshold.
FilterLowStockStrict(list) ==
    SelectSeq(list, LAMBDA p : p.stock < p.lowStockThreshold)

\* Array.prototype.filter with product.stock <= product.lowStockThreshold.
RECURSIVE FilterLowStock(_)
FilterLowStock(list) ==
    IF list = <<>> THEN <<>>
    ELSE (IF Head(list).stock <= Head(list).lowStockThreshold
          THEN <<Head(list)>> ELSE <<>>) \o FilterLowStock(Tail(list))

\* getStockStatus(product).label
getStockStatus(product) ==
    IF product.stock = 0 THEN "Out of Stock"
    ELSE IF product.stock <= product.lowStockThreshold THEN "Low Stock"
    ELSE "In Stock"

\* Math.floor(n * 0.5) of an integer n >= 0
FloorHalf(n) == n \div 2

\* getUrgencyLevel with the half of the threshold rounded up.
getUrgencyLevelCeil(product) ==
    IF product.stock = 0 THEN "critical"
    ELSE IF product.stock <= (product.lowStockThreshold + 1) \div 2 THEN "high"
    ELSE "medium"

\* getUrgencyLevel(product)
getUrgencyLevel(product) ==
    IF product.stock = 0 THEN "critical"
    ELSE IF product.stock <= FloorHalf(product.lowStockThreshold) THEN "high"
    ELSE "medium"

\* urgencyOrder = { critical: 0, high: 1, medium: 2 }
urgencyOrder == [critical |-> 0, high |-> 1, medium |-> 2]

\* list.sort((a, b) => urgencyOrder[getUrgencyLevel(a)] - urgencyOrder[getUrgencyLevel(b)]):
\* Array.prototype.sort is stable, so the products of one urgency keep the
\* order they have in the list.
SortByUrgency(list) ==
    LET OfRank(n) == SelectSeq(list, LAMBDA p : urgencyOrder[getUrgencyLevel(p)] = n)
    IN  OfRank(0) \o OfRank(1) \o OfRank(2)

\* fetchLowStockProducts, when the answer arrives: setLowStockProducts(filtered);
\* the render that follows sorts the state array in place.
LowStockFetchArrive ==
    /\ lFetching
    /\ lowStockProducts' = SortByUrgency(FilterLowStock(productApiGetAll))
    /\ lFetching' = FALSE
    /\ UNCHANGED <<storeVars, lModalOpen, selectedProduct, newStock,
                   productsPageVars, ordersPageVars, dashboardVars>>

\* handleOpenModal(product): the field starts at the row's stock.
LowStockHandleOpenModal(i) ==
    /\ i \in DOMAIN lowStockProducts
    /\ selectedProduct' = lowStockProducts[i]
    /\ newStock' = NumToString(lowStockProducts[i].stock)
    /\ lModalOpen' = TRUE
    /\ UNCHANGED <<storeVars, lowStockProducts, lFetching,
                   productsPageVars, ordersPageVars, dashboardVars>>

\* handleCloseModal
LowStockHandleCloseModal ==
    /\ lModalOpen' = FALSE
    /\ selectedProduct' = NoEditing
    /\ newStock' = <<>>
    /\ UNCHANGED <<storeVars, lowStockProducts, lFetching,
                   productsPageVars, ordersPageVars, dashboardVars>>

\* The New Stock Amount input's onChange: setNewStock(e.target.value).
LowStockSetNewStock(value) ==
    /\ lModalOpen
    /\ newStock' = value
    /\ UNCHANGED <<storeVars, lowStockProducts, lModalOpen, selectedProduct, lFetching,
                   productsPageVars, ordersPageVars, dashboardVars>>

\* handleUpdateStock without its check of stockValue < 0.
LowStockUpdateStockUnchecked(selected, text) ==
    IF selected.id = 0 \/ text = <<>>
    THEN UNCHANGED vars
    ELSE IF StoreCanUpdate(selected.id)
         THEN /\ productApiUpdate(selected.id, [stock |-> ParseInt(text)])
              /\ lModalOpen' = FALSE
              /\ selectedProduct' = NoEditing
              /\ newStock' = <<>>
              /\ lFetching' = TRUE
              /\ UNCHANGED <<orders, req, lowStockProducts,
                             productsPageVars, ordersPageVars, dashboardVars>>
         ELSE UNCHANGED vars

\* handleUpdateStock sending the product as the page listed it, with the new
\* stock: { ...selectedProduct, stock: stockValue }.
LowStockUpdateStockWholeProduct(selected, text) ==
    IF selected.id = 0 \/ text = <<>>
    THEN UNCHANGED vars
    ELSE LET stockValue == ParseInt(text)
         IN  IF stockValue < 0
             THEN UNCHANGED vars
             ELSE IF StoreCanUpdate(selected.id)
                  THEN /\ productApiUpdate(selected.id,
                                           [selected EXCEPT !.stock = stockValue])
                       /\ lModalOpen' = FALSE
                       /\ selectedProduct' = NoEditing
                       /\ newStock' = <<>>
                       /\ lFetching' = TRUE
                       /\ UNCHANGED <<orders, req, lowStockProducts,
                                      productsPageVars, ordersPageVars, dashboardVars>>
                  ELSE UNCHANGED vars

\* handleUpdateStock with the dialog holding `selected` and the field `text`.
LowStockUpdateStock(selected, text) ==
    IF selected.id = 0 \/ text = <<>>
    THEN UNCHANGED vars
    ELSE LET stockValue == ParseInt(text)
         IN  IF stockValue < 0
             THEN UNCHANGED vars
             ELSE IF StoreCanUpdate(selected.id)
                  THEN /\ productApiUpdate(selected.id, [stock |-> stockValue])
                       /\ lModalOpen' = FALSE
                       /\ selectedProduct' = NoEditing
                       /\ newStock' = <<>>
                       /\ lFetching' = TRUE
                       /\ UNCHANGED <<orders, req, lowStockProducts,
                                      productsPageVars, ordersPageVars, dashboardVars>>
                  ELSE UNCHANGED vars

\* handleUpdateStock, run on what the dialog holds by a submit event that the
\* browser has not checked against required and min.
LowStockSubmitEvent ==
    /\ lModalOpen
    /\ LowStockUpdateStock(selectedProduct, newStock)

\* handleUpdateStock, run by the form's onSubmit (required, min="0").
LowStockHandleUpdateStock ==
    /\ lModalOpen
    /\ NumberInputValid(newStock)
    /\ LowStockUpdateStock(selectedProduct, newStock)

(***************************************************************************)
(* src/unnamed/part_001: the Orders page.                                  *)
(***************************************************************************)
OrdersClient == 1   \* the POST /orders slot of the Orders page

BlankItem == [productId |-> 0, productName |-> "", price |-> 0,
              availableStock |-> 0, quantity |-> 1]

Min(a, b) == IF a <= b THEN a ELSE b

\* list.find(p => p.id === id): the product with this id in a list a page
\* holds, NoListed when it has none.
NoListed == [id |-> 0, price |-> 0, stock |-> 0]

Listed(list, p) ==
    IF \E i \in DOMAIN list : list[i].id = p
    THEN list[CHOOSE i \in DOMAIN list : list[i].id = p]
    ELSE NoListed

\* products.find(p => p.id === value): the index of the first match, 0 if none.
FindIndex(list, value) ==
    IF \E i \in DOMAIN list : list[i].id = value
    THEN CHOOSE i \in DOMAIN list :
            list[i].id = value /\ \A j \in 1..(i - 1) : list[j].id # value
    ELSE 0

\* fetchProducts, when the answer arrives.
OrdersFetchProductsArrive ==
    /\ oFetchingProducts
    /\ oProducts' = productApiGetAll
    /\ oFetchingProducts' = FALSE
    /\ UNCHANGED <<storeVars, oModalOpen, orderItems, oFetchingOrders,
                   productsPageVars, lowStockPageVars, dashboardVars>>

\* fetchOrders, when the answer arrives.
OrdersFetchOrdersArrive ==
    /\ oFetchingOrders
    /\ oFetchingOrders' = FALSE
    /\ UNCHANGED <<storeVars, oProducts, oModalOpen, orderItems, oFetchingProducts,
                   productsPageVars, lowStockPageVars, dashboardVars>>

\* handleOpenModal: one blank line.
OrdersHandleOpenModal ==
    /\ orderItems' = <<BlankItem>>
    /\ oModalOpen' = TRUE
    /\ UNCHANGED <<storeVars, oProducts, oFetchingProducts, oFetchingOrders,
                   productsPageVars, lowStockPageVars, dashboardVars>>

\* handleCloseModal
OrdersHandleCloseModal ==
    /\ oModalOpen' = FALSE
    /\ orderItems' = <<>>
    /\ UNCHANGED <<storeVars, oProducts, oFetchingProducts, oFetchingOrders,
                   productsPageVars, lowStockPageVars, dashboardVars>>

\* addOrderItem
addOrderItem ==
    /\ oModalOpen
    /\ Len(orderItems) < MaxLines
    /\ orderItems' = Append(orderItems, BlankItem)
    /\ UNCHANGED <<storeVars, oProducts, oModalOpen, oFetchingProducts, oFetchingOrders,
                   productsPageVars, lowStockPageVars, dashboardVars>>

\* orderItems.filter((_, i) => i !== index)
RemoveAt(items, index) ==
    [i \in 1..(Len(items) - 1) |-> IF i < index THEN items[i] ELSE items[i + 1]]

\* removeOrderItem behind a Remove button that always shows.
removeOrderItemAlways(index) ==
    /\ oModalOpen
    /\ index \in DOMAIN orderItems
    /\ orderItems' = RemoveAt(orderItems, index)
    /\ UNCHANGED <<storeVars, oProducts, oModalOpen, oFetchingProducts, oFetchingOrders,
                   productsPageVars, lowStockPageVars, dashboardVars>>

\* removeOrderItem(index); the Remove button shows when there are several lines.
removeOrderItem(index) ==
    /\ oModalOpen
    /\ Len(orderItems) > 1
    /\ index \in DOMAIN orderItems
    /\ orderItems' = RemoveAt(orderItems, index)
    /\ UNCHANGED <<storeVars, oProducts, oModalOpen, oFetchingProducts, oFetchingOrders,
                   productsPageVars, lowStockPageVars, dashboardVars>>

\* A Select that offers every listed product.
availableProductsUnfiltered(currentProductId) ==
    {oProducts[i].id : i \in DOMAIN oProducts}

\* availableProducts(currentProductId): the identities the line's Select offers.
availableProducts(currentProductId) ==
    LET selectedProductIds ==
            {orderItems[i].productId : i \in DOMAIN orderItems}
                \ {0, currentProductId}
    IN  {oProducts[i].id : i \in
            {j \in DOMAIN oProducts :
                oProducts[j].stock > 0 /\ oProducts[j].id \notin selectedProductIds}}

\* updateOrderItem(index, "productId", value): the line as it is afterwards.
ItemWithProduct(item, value) ==
    LET k == FindIndex(oProducts, value)
    IN  IF k # 0
        THEN [productId |-> value,
              productName |-> oProducts[k].name,
              price |-> oProducts[k].price,
              availableStock |-> oProducts[k].stock,
              quantity |-> Min(item.quantity, oProducts[k].stock)]
        ELSE item

\* The line's Select: onValueChange with one of the identities it offers.
updateOrderItemProduct(index, value) ==
    /\ oModalOpen
    /\ index \in DOMAIN orderItems
    /\ value \in availableProducts(orderItems[index].productId)
    /\ orderItems' = [orderItems EXCEPT ![index] = ItemWithProduct(@, value)]
    /\ UNCHANGED <<storeVars, oProducts, oModalOpen, oFetchingProducts, oFetchingOrders,
                   productsPageVars, lowStockPageVars, dashboardVars>>

\* The Quantity input's onChange value: parseInt(e.target.value) || 1
QuantityOf(text) ==
    IF ParsesToNaN(text) THEN 1
    ELSE IF ParseInt(text) = 0 THEN 1 ELSE ParseInt(text)

\* updateOrderItem(index, "quantity", value)
updateOrderItemQuantity(index, text) ==
    /\ oModalOpen
    /\ index \in DOMAIN orderItems
    /\ orderItems' = [orderItems EXCEPT ![index].quantity = QuantityOf(text)]
    /\ UNCHANGED <<storeVars, oProducts, oModalOpen, oFetchingProducts, oFetchingOrders,
                   productsPageVars, lowStockPageVars, dashboardVars>>

\* The sum of the lines' prices, whatever their quantities.
calculateTotalOfPrices ==
    LET RECURSIVE Prices(_)
        Prices(items) ==
            IF items = <<>> THEN 0 ELSE Head(items).price + Prices(Tail(items))
    IN  Prices(orderItems)

\* calculateTotal over a list of lines
RECURSIVE Total(_)
Total(items) ==
    IF items = <<>> THEN 0
    ELSE Head(items).price * Head(items).quantity + Total(Tail(items))

calculateTotal == Total(orderItems)

\* validateOrder: the verdict on the first line that fails, "ok" if none does.
RECURSIVE Validate(_)
Validate(items) ==
    IF items = <<>> THEN "ok"
    ELSE IF Head(items).productId = 0 THEN "NoProduct"
    ELSE IF Head(items).quantity > Head(items).availableStock THEN "InsufficientStock"
    ELSE IF Head(items).quantity <= 0 THEN "InvalidQuantity"
    ELSE Validate(Tail(items))

validateOrder == Validate(orderItems)

\* No toast shown.
NoToast == [description |-> "", productName |-> "", available |-> 0]

\* validateOrder's toast: the message of the first line that fails, which for
\* a line short of stock carries that line's productName and availableStock.
RECURSIVE ValidateToast(_)
ValidateToast(items) ==
    IF items = <<>> THEN NoToast
    ELSE IF Head(items).productId = 0
         THEN [description |-> "Please select a product for all items.",
               productName |-> "", available |-> 0]
    ELSE IF Head(items).quantity > Head(items).availableStock
         THEN [description |-> "Not enough stock for",
               productName |-> Head(items).productName,
               available |-> Head(items).availableStock]
    ELSE IF Head(items).quantity <= 0
         THEN [description |-> "Quantity must be greater than 0.",
               productName |-> "", available |-> 0]
    ELSE ValidateToast(Tail(items))

\* The body with each line's price read again from the product list.
OrderDataRepriced ==
    [items |-> [i \in DOMAIN orderItems |->
                    [productId |-> orderItems[i].productId,
                     quantity |-> orderItems[i].quantity,
                     price |-> IF Listed(oProducts, orderItems[i].productId).id # 0
                               THEN Listed(oProducts, orderItems[i].productId).price
                               ELSE orderItems[i].price]],
     totalPrice |-> calculateTotal]

\* The body handleSubmitOrder posts.
OrderData ==
    [items |-> [i \in DOMAIN orderItems |->
                    [productId |-> orderItems[i].productId,
                     quantity |-> orderItems[i].quantity,
                     price |-> orderItems[i].price]],
     totalPrice |-> calculateTotal]

\* The Place Order button is disabled while a line has no product or the total is 0.
PlaceOrderEnabled ==
    /\ \A i \in DOMAIN orderItems : orderItems[i].productId # 0
    /\ calculateTotal # 0

\* handleSubmitOrder up to its await.
handleSubmitOrder ==
    /\ oModalOpen
    /\ PlaceOrderEnabled
    /\ req[OrdersClient].pc = "idle"
    /\ IF validateOrder # "ok"
       THEN UNCHANGED vars
       ELSE /\ orderApiCreate(OrdersClient, OrderData)
            /\ UNCHANGED <<products, nextId, orders, pageVars>>

\* handleSubmitOrder closing the dialog and re-fetching whatever the answer.
handleSubmitOrderResumeAlways ==
    /\ req[OrdersClient].pc = "done"
    /\ req' = [req EXCEPT ![OrdersClient] = IdleReq]
    /\ oModalOpen' = FALSE
    /\ orderItems' = <<>>
    /\ oFetchingOrders' = TRUE
    /\ oFetchingProducts' = TRUE
    /\ UNCHANGED oProducts
    /\ UNCHANGED <<products, nextId, orders, productsPageVars, lowStockPageVars, dashboardVars>>

\* handleSubmitOrder after its await: the answer of POST /orders.
handleSubmitOrderResume ==
    /\ req[OrdersClient].pc = "done"
    /\ req' = [req EXCEPT ![OrdersClient] = IdleReq]
    /\ IF req[OrdersClient].result.kind = "ok"
       THEN /\ oModalOpen' = FALSE
            /\ orderItems' = <<>>
            /\ oFetchingOrders' = TRUE
            /\ oFetchingProducts' = TRUE
            /\ UNCHANGED oProducts
       ELSE UNCHANGED ordersPageVars
    /\ UNCHANGED <<products, nextId, orders, productsPageVars, lowStockPageVars, dashboardVars>>

(***************************************************************************)
(* src/src/pages/Dashboard.tsx and dashboardApi.getStats of api.ts.        *)
(***************************************************************************)
RecentCount == 5

\* orders.slice(0, 5)
Slice(list, n) == SubSeq(list, 1, Min(n, Len(list)))

\* getStats handing out its low-stock products in the Low Stock page's order.
StatsOfSorted(productList, orderList) ==
    LET low == SortByUrgency(FilterLowStock(productList))
    IN [totalProducts |-> Len(productList),
        totalOrders |-> Len(orderList),
        lowStockCount |-> Len(low),
        recentOrders |-> Slice(orderList, RecentCount),
        lowStockProducts |-> low]

\* What getStats returns from the two answers.
StatsOf(productList, orderList) ==
    LET low == FilterLowStock(productList)
    IN [totalProducts |-> Len(productList),
        totalOrders |-> Len(orderList),
        lowStockCount |-> Len(low),
        recentOrders |-> Slice(orderList, RecentCount),
        lowStockProducts |-> low]

\* useEffect(fetchDashboardStats, []) of a page mounted again: setLoading(true),
\* and getStats sends its two requests, productApi.getAll() and orderApi.getAll().
DashboardMount ==
    /\ dProductsRes.state = "none" /\ dOrdersRes.state = "none"
    /\ stats' = NoStats
    /\ dLoading' = TRUE
    /\ dProductsRes' = PendingRes
    /\ dOrdersRes' = PendingRes
    /\ UNCHANGED <<storeVars, productsPageVars, lowStockPageVars, ordersPageVars>>

\* getStats' GET /products is answered from the store.
DashProductsArrive ==
    /\ dProductsRes.state = "pending"
    /\ dProductsRes' = [state |-> "ok", data |-> productApiGetAll]
    /\ UNCHANGED <<storeVars, productsPageVars, lowStockPageVars, ordersPageVars,
                   stats, dLoading, dOrdersRes>>

\* getStats' GET /orders is answered from the store.
DashOrdersArrive ==
    /\ dOrdersRes.state = "pending"
    /\ \E ordering \in StoredOrderings :
            dOrdersRes' = [state |-> "ok", data |-> orderApiGetAll(ordering)]
    /\ UNCHANGED <<storeVars, productsPageVars, lowStockPageVars, ordersPageVars,
                   stats, dLoading, dProductsRes>>

\* One of the two requests fails.
DashRequestFails ==
    /\ \/ /\ dProductsRes.state = "pending"
          /\ dProductsRes' = [state |-> "failed", data |-> <<>>]
          /\ UNCHANGED dOrdersRes
       \/ /\ dOrdersRes.state = "pending"
          /\ dOrdersRes' = [state |-> "failed", data |-> <<>>]
          /\ UNCHANGED dProductsRes
    /\ UNCHANGED <<storeVars, productsPageVars, lowStockPageVars, ordersPageVars,
                   stats, dLoading>>

\* Promise.all resolves with both answers: setStats(data), then setLoading(false).
DashResolve ==
    /\ dProductsRes.state = "ok" /\ dOrdersRes.state = "ok"
    /\ stats' = StatsOf(dProductsRes.data, dOrdersRes.data)
    /\ dLoading' = FALSE
    /\ dProductsRes' = NoRes
    /\ dOrdersRes' = NoRes
    /\ UNCHANGED <<storeVars, productsPageVars, lowStockPageVars, ordersPageVars>>

\* A getStats that settles for the answers it has: stats from the request that
\* succeeded, nothing for the one that failed.
DashRejectPartial ==
    /\ dProductsRes.state = "failed" \/ dOrdersRes.state = "failed"
    /\ stats' = StatsOf(dProductsRes.data, dOrdersRes.data)
    /\ dLoading' = FALSE
    /\ dProductsRes' = NoRes
    /\ dOrdersRes' = NoRes
    /\ UNCHANGED <<storeVars, productsPageVars, lowStockPageVars, ordersPageVars>>

\* Promise.all rejects with the first failure: the catch leaves stats as it is,
\* and finally setLoading(false).  The other answer is dropped.
DashReject ==
    /\ dProductsRes.state = "failed" \/ dOrdersRes.state = "failed"
    /\ dLoading' = FALSE
    /\ dProductsRes' = NoRes
    /\ dOrdersRes' = NoRes
    /\ UNCHANGED <<storeVars, productsPageVars, lowStockPageVars, ordersPageVars, stats>>

(***************************************************************************)
(* Another client of the REST API, placing orders of its own.              *)
(***************************************************************************)
ApiClient == 2

\* A well-formed body, as handleSubmitOrder builds it: totalPrice is the sum.
ApiOrderData(items) == [items |-> items, totalPrice |-> Total(items)]

ApiCreateOrder(r, items) ==
    /\ orderApiCreate(r, ApiOrderData(items))
    /\ UNCHANGED <<products, nextId, orders, pageVars>>

\* The client takes the answer; its slot is free again.
ApiReceive(r) ==
    /\ req[r].pc = "done"
    /\ req' = [req EXCEPT ![r] = IdleReq]
    /\ UNCHANGED <<products, nextId, orders, pageVars>>

ServerAcquireLock(r) == AcquireLock(r) /\ UNCHANGED pageVars

ServerCommit(r) == Commit(r) /\ UNCHANGED pageVars

(***************************************************************************)
(* Initial states.                                                         *)
(***************************************************************************)
PagesInit ==
    /\ pProducts = <<>> /\ pModalOpen = FALSE /\ editingProduct = NoEditing
    /\ formData = EmptyForm /\ pFetching = TRUE /\ pInFlight = <<>>
    /\ lowStockProducts = <<>> /\ lModalOpen = FALSE /\ selectedProduct = NoEditing
    /\ newStock = <<>> /\ lFetching = TRUE
    /\ oProducts = <<>> /\ oModalOpen = FALSE /\ orderItems = <<>>
    /\ oFetchingProducts = TRUE /\ oFetchingOrders = TRUE
    /\ stats = NoStats /\ dLoading = TRUE
    /\ dProductsRes = PendingRes /\ dOrdersRes = PendingRes

\* An empty store, every page just mounted.
Init ==
    /\ products = [p \in Pids |-> NoProduct]
    /\ nextId = 1
    /\ orders = <<>>
    /\ req = [r \in Reqs |-> IdleReq]
    /\ PagesInit

(***************************************************************************)
(* Spec: the five operations on the store, issued by the pages' handlers   *)
(* and by clients placing orders, in any interleaving.  A page's dialog    *)
(* session (open, fill in, submit) appears as the one step of its submit   *)
(* handler on what the dialog then holds.                                  *)
(***************************************************************************)
CoreNumberTexts == {<<"0">>, <<"1">>, <<"2">>, <<"-", "1">>}

CoreForms ==
    [name : {"a"}, description : {""}, price : {<<"1">>},
     stock : CoreNumberTexts, lowStockThreshold : {<<"1">>}]

CoreQuantities == {0, 1, 2}

CoreLines == [productId : Pids, quantity : CoreQuantities, price : {1}]

\* One line asking for none or for two units, or two lines of one unit each,
\* the second on product 1 (the same product twice, or two products).
CoreItems ==
    {<<l>> : l \in {x \in CoreLines : x.quantity # 1}}
        \cup {<<l1, l2>> : l1 \in {l \in CoreLines : l.quantity = 1},
                           l2 \in {l \in CoreLines : l.quantity = 1 /\ l.productId = 1}}

CreateProduct ==
    \E fd \in CoreForms : ProductFormValid(fd) /\ ProductsSubmit(NoEditing, fd)

UpdateProduct ==
    \E id \in Pids, fd \in CoreForms :
        ProductFormValid(fd) /\ ProductsSubmit([id |-> id], fd)

SetStock ==
    \E id \in Pids, text \in CoreNumberTexts :
        NumberInputValid(text) /\ LowStockUpdateStock([id |-> id], text)

DeleteProduct == \E id \in Pids : ProductsDelete(id)

CreateOrder == \E r \in Reqs, items \in CoreItems : ApiCreateOrder(r, items)

Next ==
    \/ CreateProduct
    \/ UpdateProduct
    \/ SetStock
    \/ DeleteProduct
    \/ CreateOrder
    \/ \E r \in Reqs : ServerAcquireLock(r)
    \/ \E r \in Reqs : ServerCommit(r)
    \/ \E r \in Reqs : ApiReceive(r)

Spec == Init /\ [][Next]_vars

(***************************************************************************)
(* SpecCommit: clients placing orders against a store that already holds   *)
(* products; nothing but a commit changes a product.                       *)
(***************************************************************************)
MaxStock == 3       \* largest stock a product starts with

SeedProduct(stock) ==
    [name |-> "a", description |-> "", price |-> 1, stock |-> stock,
     lowStockThreshold |-> 1, exists |-> TRUE]

SeedProducts == {NoProduct} \cup {SeedProduct(n) : n \in 0..MaxStock}

InitCommit ==
    /\ products \in [Pids -> SeedProducts]
    /\ nextId = NumPids + 1
    /\ orders = <<>>
    /\ req = [r \in Reqs |-> IdleReq]
    /\ PagesInit

CommitLines == [productId : Pids, quantity : {0, 1, 2}, price : {1}]

CommitItems ==
    {<<l>> : l \in CommitLines}
        \cup {<<l1, l2>> : l1 \in {l \in CommitLines : l.quantity > 0},
                           l2 \in {l \in CommitLines : l.quantity > 0}}

CreateOrderCommit == \E r \in Reqs, items \in CommitItems : ApiCreateOrder(r, items)

NextCommit ==
    \/ CreateOrderCommit
    \/ \E r \in Reqs : ServerAcquireLock(r)
    \/ \E r \in Reqs : ServerCommit(r)

SpecCommit == InitCommit /\ [][NextCommit]_vars

\* The same, with the store's scheduling: an admitted request that can take its
\* next lock, or commit, eventually does.
SpecCommitFair ==
    /\ SpecCommit
    /\ \A r \in Reqs : WF_vars(ServerAcquireLock(r)) /\ WF_vars(ServerCommit(r))

(***************************************************************************)
(* SpecDash: the Dashboard reading the store while clients place orders.   *)
(* Every product starts with DashStock units, above its low-stock          *)
(* threshold, and nothing but a commit changes a product.                  *)
(***************************************************************************)
DashStock == 2

InitDash ==
    /\ products = [p \in Pids |-> SeedProduct(DashStock)]
    /\ nextId = NumPids + 1
    /\ orders = <<>>
    /\ req = [r \in Reqs |-> IdleReq]
    /\ PagesInit

NextDash ==
    \/ CreateOrderCommit
    \/ \E r \in Reqs : ServerAcquireLock(r)
    \/ \E r \in Reqs : ServerCommit(r)
    \/ \E r \in Reqs : ApiReceive(r)
    \/ DashboardMount
    \/ DashProductsArrive
    \/ DashOrdersArrive
    \/ DashRequestFails
    \/ DashResolve
    \/ DashReject

SpecDash == InitDash /\ [][NextDash]_vars

(***************************************************************************)
(* SpecEdit: a user of the Products page changing the price of products in *)
(* the Edit dialog while another client places orders.  The user never     *)
(* touches the dialog's stock field, so the stock of a product changes by  *)
(* the decrements of committed orders and by nothing else the users mean.  *)
(***************************************************************************)
InitEdit ==
    /\ products = [p \in Pids |-> SeedProduct(MaxStock)]
    /\ nextId = NumPids + 1
    /\ orders = <<>>
    /\ req = [r \in Reqs |-> IdleReq]
    /\ PagesInit

EditPriceTexts == {<<"1">>, <<"2">>}

EditItems == {<<[productId |-> p, quantity |-> q, price |-> 1]>> : p \in Pids, q \in {1, 2}}

NextEdit ==
    \/ ProductsFetchArrive
    \/ \E i \in 1..NumPids : ProductsHandleOpenModalEdit(i)
    \/ \E text \in EditPriceTexts : ProductsSetField("price", text)
    \/ ProductsHandleSubmit
    \/ ProductsHandleCloseModal
    \/ \E items \in EditItems : ApiCreateOrder(ApiClient, items)
    \/ ServerAcquireLock(ApiClient)
    \/ ServerCommit(ApiClient)
    \/ ApiReceive(ApiClient)

SpecEdit == InitEdit /\ [][NextEdit]_vars

(***************************************************************************)
(* SpecOrders: a user of the Orders page filling in and placing orders,    *)
(* while a user of the Products page reprices, restocks and deletes        *)
(* products.                                                               *)
(***************************************************************************)
InitOrders ==
    /\ products = [p \in Pids |-> IF p = 1 THEN SeedProduct(MaxStock) ELSE NoProduct]
    /\ nextId = NumPids + 1
    /\ orders = <<>>
    /\ req = [r \in Reqs |-> IdleReq]
    /\ PagesInit

\* What the other user saves in the Edit dialog: a new price and a new stock.
OrdersForms ==
    {[name |-> "a", description |-> "", price |-> <<"2">>, stock |-> <<"1">>,
      lowStockThreshold |-> <<"1">>]}

OrdersQuantityTexts == {<<"2">>, <<"-", "1">>}

NextOrders ==
    \/ OrdersFetchProductsArrive
    \/ OrdersFetchOrdersArrive
    \/ OrdersHandleOpenModal
    \/ OrdersHandleCloseModal
    \/ addOrderItem
    \/ \E index \in 1..MaxLines : removeOrderItem(index)
    \/ \E index \in 1..MaxLines, value \in Pids : updateOrderItemProduct(index, value)
    \/ \E index \in 1..MaxLines, text \in OrdersQuantityTexts :
            updateOrderItemQuantity(index, text)
    \/ handleSubmitOrder
    \/ handleSubmitOrderResume
    \/ ServerAcquireLock(OrdersClient)
    \/ ServerCommit(OrdersClient)
    \/ \E id \in Pids, fd \in OrdersForms :
            ProductFormValid(fd) /\ ProductsSubmit([id |-> id], fd)
    \/ \E id \in Pids : ProductsDelete(id)

SpecOrders == InitOrders /\ [][NextOrders]_vars

(***************************************************************************)
(* SpecForm: a user of the Orders page filling in and placing orders of    *)
(* several lines; nobody else changes the store.  Product p costs p.       *)
(***************************************************************************)
InitForm ==
    /\ products = [p \in Pids |-> [SeedProduct(MaxStock) EXCEPT !.price = p]]
    /\ nextId = NumPids + 1
    /\ orders = <<>>
    /\ req = [r \in Reqs |-> IdleReq]
    /\ PagesInit

NextForm ==
    \/ OrdersFetchProductsArrive
    \/ OrdersFetchOrdersArrive
    \/ OrdersHandleOpenModal
    \/ OrdersHandleCloseModal
    \/ addOrderItem
    \/ \E index \in 1..MaxLines : removeOrderItem(index)
    \/ \E index \in 1..MaxLines, value \in Pids : updateOrderItemProduct(index, value)
    \/ \E index \in 1..MaxLines, text \in OrdersQuantityTexts :
            updateOrderItemQuantity(index, text)
    \/ handleSubmitOrder
    \/ handleSubmitOrderResume
    \/ ServerAcquireLock(OrdersClient)
    \/ ServerCommit(OrdersClient)

SpecForm == InitForm /\ [][NextForm]_vars

(***************************************************************************)
(* SpecStock: a user of the Low Stock page setting the stock of products   *)
(* that are low on stock, to any amount the field can hold.                *)
(***************************************************************************)
InitStock ==
    /\ products = [p \in Pids |-> SeedProduct(p - 1)]
    /\ nextId = NumPids + 1
    /\ orders = <<>>
    /\ req = [r \in Reqs |-> IdleReq]
    /\ PagesInit

StockTexts == {<<>>, <<"0">>, <<"1">>, <<"3">>, <<"-", "1">>, <<"-", "2">>}

NextStock ==
    \/ LowStockFetchArrive
    \/ \E i \in 1..NumPids : LowStockHandleOpenModal(i)
    \/ \E text \in StockTexts : LowStockSetNewStock(text)
    \/ LowStockSubmitEvent
    \/ LowStockHandleUpdateStock
    \/ LowStockHandleCloseModal

SpecStock == InitStock /\ [][NextStock]_vars

(***************************************************************************)
(* SpecViews: the pages listing products of every stock and threshold,     *)
(* while a user of the Low Stock page restocks.                             *)
(***************************************************************************)
MaxThreshold == 3

ViewProducts ==
    {[name |-> n, description |-> "", price |-> 1, stock |-> k,
      lowStockThreshold |-> t, exists |-> TRUE] :
        n \in {"a", "b"}, k \in 0..MaxStock, t \in 0..MaxThreshold}

InitViews ==
    /\ products \in [Pids -> ViewProducts]
    /\ nextId = NumPids + 1
    /\ orders = <<>>
    /\ req = [r \in Reqs |-> IdleReq]
    /\ PagesInit

ViewStockTexts == {<<"0">>, <<"3">>}

NextViews ==
    \/ ProductsFetchArrive
    \/ LowStockFetchArrive
    \/ \E i \in 1..NumPids : LowStockHandleOpenModal(i)
    \/ \E text \in ViewStockTexts : LowStockSetNewStock(text)
    \/ LowStockHandleUpdateStock
    \/ LowStockHandleCloseModal

SpecViews == InitViews /\ [][NextViews]_vars

(***************************************************************************)
(* SpecList: the pages listing the products, the Dashboard again and again, *)
(* while a client places orders and a user of the Products page deletes    *)
(* products.                                                               *)
(***************************************************************************)
InitList ==
    /\ products = [p \in Pids |-> SeedProduct(p)]
    /\ nextId = NumPids + 1
    /\ orders = <<>>
    /\ req = [r \in Reqs |-> IdleReq]
    /\ PagesInit

ListItems ==
    {<<[productId |-> p, quantity |-> 1, price |-> 1]>> : p \in Pids}
        \cup {<<[productId |-> 2, quantity |-> 1, price |-> 1],
                [productId |-> 1, quantity |-> 1, price |-> 1]>>}

NextList ==
    \/ ProductsFetchArrive
    \/ OrdersFetchProductsArrive
    \/ DashboardMount
    \/ DashProductsArrive
    \/ DashOrdersArrive
    \/ DashRequestFails
    \/ DashResolve
    \/ DashReject
    \/ \E items \in ListItems : ApiCreateOrder(ApiClient, items)
    \/ ServerAcquireLock(ApiClient)
    \/ ServerCommit(ApiClient)
    \/ ApiReceive(ApiClient)
    \/ \E i \in 1..NumPids : ProductsHandleDelete(i)

SpecList == InitList /\ [][NextList]_vars

(***************************************************************************)
(* SpecShort: a user of the Orders page asking for more than the one unit  *)
(* each product has.  Product 1 is named "a", product 2 "b".               *)
(***************************************************************************)
InitShort ==
    /\ products = [p \in Pids |->
                     [SeedProduct(1) EXCEPT !.name = IF p = 1 THEN "a" ELSE "b"]]
    /\ nextId = NumPids + 1
    /\ orders = <<>>
    /\ req = [r \in Reqs |-> IdleReq]
    /\ PagesInit

ShortQuantityTexts == {<<"1">>, <<"2">>}

NextShort ==
    \/ OrdersFetchProductsArrive
    \/ OrdersFetchOrdersArrive
    \/ OrdersHandleOpenModal
    \/ OrdersHandleCloseModal
    \/ addOrderItem
    \/ \E index \in 1..MaxLines : removeOrderItem(index)
    \/ \E index \in 1..MaxLines, value \in Pids : updateOrderItemProduct(index, value)
    \/ \E index \in 1..MaxLines, text \in ShortQuantityTexts :
            updateOrderItemQuantity(index, text)
    \/ handleSubmitOrder
    \/ handleSubmitOrderResume
    \/ ServerAcquireLock(OrdersClient)
    \/ ServerCommit(OrdersClient)

SpecShort == InitShort /\ [][NextShort]_vars

(***************************************************************************)
(* SpecSubmit: a user of the Products page filling in the Add and the Edit *)
(* dialog, leaving fields empty or not, and submitting.  The store starts  *)
(* empty, with room for one product.                                       *)
(***************************************************************************)
InitSubmit ==
    /\ products = [p \in Pids |-> NoProduct]
    /\ nextId = NumPids
    /\ orders = <<>>
    /\ req = [r \in Reqs |-> IdleReq]
    /\ PagesInit

SubmitNames == {"", "b"}

SubmitNumberTexts == {<<>>, <<"0">>, <<"2">>}

NextSubmit ==
    \/ ProductsFetchArrive
    \/ ProductsHandleOpenModalNew
    \/ \E i \in 1..NumPids : ProductsHandleOpenModalEdit(i)
    \/ \E name \in SubmitNames : ProductsSetField("name", name)
    \/ \E field \in {"price", "stock", "lowStockThreshold"}, text \in SubmitNumberTexts :
            ProductsSetField(field, text)
    \/ ProductsSubmitEvent
    \/ ProductsHandleSubmit
    \/ ProductsHandleCloseModal

SpecSubmit == InitSubmit /\ [][NextSubmit]_vars

(***************************************************************************)
(* SpecRestock: a user of the Low Stock page restocking products while     *)
(* another user reprices them in the Edit dialog and a client places       *)
(* orders.  Product 1 is named "a", product 2 "b"; both start low on       *)
(* stock.                                                                  *)
(***************************************************************************)
InitRestock ==
    /\ products = [p \in Pids |->
                     [SeedProduct(p) EXCEPT !.name = IF p = 1 THEN "a" ELSE "b",
                                            !.lowStockThreshold = MaxStock]]
    /\ nextId = NumPids + 1
    /\ orders = <<>>
    /\ req = [r \in Reqs |-> IdleReq]
    /\ PagesInit

\* What the other user saves in the Edit dialog of product p: a new price.
RepriceForm(p) ==
    [name |-> products[p].name, description |-> products[p].description,
     price |-> <<"2">>, stock |-> NumToString(products[p].stock),
     lowStockThreshold |-> NumToString(products[p].lowStockThreshold)]

RestockItems == {<<[productId |-> p, quantity |-> 1, price |-> 1]>> : p \in Pids}

NextRestock ==
    \/ LowStockFetchArrive
    \/ \E i \in 1..NumPids : LowStockHandleOpenModal(i)
    \/ \E text \in ViewStockTexts : LowStockSetNewStock(text)
    \/ LowStockHandleUpdateStock
    \/ LowStockHandleCloseModal
    \/ \E id \in Pids :
            /\ StoreCanUpdate(id)
            /\ ProductFormValid(RepriceForm(id))
            /\ ProductsSubmit([id |-> id], RepriceForm(id))
    \/ \E items \in RestockItems : ApiCreateOrder(ApiClient, items)
    \/ ServerAcquireLock(ApiClient)
    \/ ServerCommit(ApiClient)
    \/ ApiReceive(ApiClient)

SpecRestock == InitRestock /\ [][NextRestock]_vars

(***************************************************************************)
(* SpecFetch: a user of the Products page deleting and repricing products, *)
(* each save followed by a fetch of the list; the answers of the fetches   *)
(* reach the page in any order.  Nobody else changes the store.            *)
(***************************************************************************)
InitFetch ==
    /\ products = [p \in Pids |-> SeedProduct(p)]
    /\ nextId = NumPids + 1
    /\ orders = <<>>
    /\ req = [r \in Reqs |-> IdleReq]
    /\ PagesInit

NextFetch ==
    \/ ProductsFetchAnswered
    \/ \E k \in 1..MaxInFlight : ProductsFetchReceive(k)
    \/ \E i \in 1..NumPids : ProductsHandleDelete(i)
    \/ \E i \in 1..NumPids : ProductsHandleOpenModalEdit(i)
    \/ ProductsSetField("price", <<"2">>)
    \/ ProductsHandleSubmit
    \/ ProductsHandleCloseModal

SpecFetch == InitFetch /\ [][NextFetch]_vars

(***************************************************************************)
(* SpecAgree: the Products page, the Low Stock page and the Dashboard      *)
(* reading a store that holds any products of any stock and threshold.     *)
(***************************************************************************)
InitAgree ==
    /\ products \in [Pids -> ViewProducts \cup {NoProduct}]
    /\ nextId = NumPids + 1
    /\ orders = <<>>
    /\ req = [r \in Reqs |-> IdleReq]
    /\ PagesInit

NextAgree ==
    \/ ProductsFetchArrive
    \/ LowStockFetchArrive
    \/ DashboardMount
    \/ DashProductsArrive
    \/ DashOrdersArrive
    \/ DashRequestFails
    \/ DashResolve
    \/ DashReject

SpecAgree == InitAgree /\ [][NextAgree]_vars

(***************************************************************************)
(* The claims.                                                             *)
(***************************************************************************)
\* Steps of the store that answer request r.
CommitStep(r) == req[r].pc = "locking" /\ req'[r].pc = "done"

CommitFailed(r) == CommitStep(r) /\ req'[r].result.kind # "ok"

CommitSucceeded(r) == CommitStep(r) /\ req'[r].result.kind = "ok"

\* Every product of the order exists and every line asks a positive quantity.
WellFormed(items) ==
    Missing(items) = {} /\ \A i \in DOMAIN items : items[i].quantity > 0

\* Units of product p the order records in list have taken.
RECURSIVE CommittedDemand(_, _)
CommittedDemand(list, p) ==
    IF list = <<>> THEN 0
    ELSE Demand(Head(list).items, p) + CommittedDemand(Tail(list), p)

\* C1: after any sequence of createProduct, updateProduct, setStock, createOrder
\* and deleteProduct, in any interleaving, every existing product has stock >= 0.
StockNeverNegative ==
    \A p \in Pids : products[p].exists => products[p].stock >= 0

\* A product sold out by an order, and an order refused for lack of stock.
StockNeverNegativeWitness ==
    \E p \in Pids :
        /\ products[p].exists /\ products[p].stock = 0
        /\ CommittedDemand(orders, p) > 0
        /\ \E r \in Reqs : req[r].pc = "done" /\ p \in req[r].result.short

\* C2: a createOrder that fails (ProductNotFound, InvalidQuantity or
\* InsufficientStock) leaves every product's stock as it was and adds no order.
FailedOrderChangesNothing ==
    [][\A r \in Reqs : CommitFailed(r) => products' = products /\ orders' = orders]_vars

\* An order refused for one product while its other product had enough stock.
FailedOrderWitness ==
    \E r \in Reqs :
        /\ req[r].pc = "done" /\ req[r].result.kind = "InsufficientStock"
        /\ \E p \in Needed(req[r].items) \ req[r].result.short :
              products[p].exists /\ Demand(req[r].items, p) <= products[p].stock

\* C3: a createOrder that succeeds reduces the stock of every product by exactly
\* the total quantity its lines ask of it (nothing, for a product it does not
\* name), changes no other field, and adds exactly one order record.
SuccessfulOrderDecrementsExactly ==
    [][\A r \in Reqs : CommitSucceeded(r) =>
          /\ \A p \in Pids :
                products'[p] = [products[p] EXCEPT !.stock = @ - Demand(req[r].items, p)]
          /\ Len(orders') = Len(orders) + 1
          /\ SubSeq(orders', 1, Len(orders)) = orders
          /\ orders'[Len(orders')].items = req[r].items]_vars

\* An order of two lines on one product has been committed.
SuccessfulOrderWitness ==
    \E r \in Reqs :
        /\ req[r].pc = "done" /\ req[r].result.kind = "ok"
        /\ Len(req[r].items) = 2
        /\ req[r].items[1].productId = req[r].items[2].productId
        /\ Len(orders) >= 1

\* The stock product p had before any order was committed (in SpecCommit only a
\* commit changes a stock).
OriginalStock(p) == products[p].stock + CommittedDemand(orders, p)

\* The order asks more than half of p's original stock, and no more than all of it.
MoreThanHalf(items, p) ==
    /\ 2 * Demand(items, p) > OriginalStock(p)
    /\ Demand(items, p) <= OriginalStock(p)

\* C4: of two concurrent createOrder calls that each ask more than half of a
\* product's stock, the one the store answers second is refused with
\* InsufficientStock for that product and adds no order: at most one succeeds.
ConcurrentOrdersOneSucceeds ==
    [][\A r \in Reqs : \A p \in Pids :
          ( /\ CommitStep(r)
            /\ WellFormed(req[r].items)
            /\ MoreThanHalf(req[r].items, p)
            /\ \E i \in DOMAIN orders :
                  i > req[r].admittedAt /\ MoreThanHalf(orders[i].items, p) )
          => /\ req'[r].result.kind = "InsufficientStock"
             /\ p \in req'[r].result.short
             /\ orders' = orders
             /\ products' = products]_vars

\* Two requests admitted before either was answered, both asking more than half
\* of one product's stock: one committed, the other refused for that product.
ConcurrentOrdersWitness ==
    \E r1 \in Reqs, r2 \in Reqs, p \in Pids :
        /\ r1 # r2
        /\ req[r1].pc = "done" /\ req[r1].result.kind = "ok"
        /\ req[r2].pc = "done" /\ req[r2].result.kind = "InsufficientStock"
        /\ p \in req[r2].result.short
        /\ req[r1].admittedAt = 0 /\ req[r2].admittedAt = 0
        /\ Len(orders) = 1
        /\ products[p].exists
        /\ MoreThanHalf(req[r1].items, p) /\ MoreThanHalf(req[r2].items, p)

\* Some product is named by two lines of the order, each within the stock, that
\* together ask more than the stock.
DuplicateOverdraw(items, p) ==
    /\ \E i \in DOMAIN items : \E j \in DOMAIN items :
          i # j /\ items[i].productId = p /\ items[j].productId = p
    /\ \A i \in DOMAIN items :
          items[i].productId = p => items[i].quantity <= products[p].stock
    /\ Demand(items, p) > products[p].stock

\* C6: an order that names one product on several lines is checked against the
\* product's total demand: when the lines together ask more than its stock the
\* order fails with InsufficientStock for it, though each line is within stock.
DuplicateLinesCheckedInTotal ==
    [][\A r \in Reqs : \A p \in Pids :
          (CommitStep(r) /\ WellFormed(req[r].items) /\ DuplicateOverdraw(req[r].items, p))
          => /\ req'[r].result.kind = "InsufficientStock"
             /\ p \in req'[r].result.short
             /\ products' = products
             /\ orders' = orders]_vars

\* Such an order has been refused.
DuplicateLinesWitness ==
    \E r \in Reqs : \E p \in Pids :
        /\ req[r].pc = "done" /\ req[r].result.kind = "InsufficientStock"
        /\ products[p].exists
        /\ DuplicateOverdraw(req[r].items, p)

\* C8: under fair scheduling every admitted createOrder is answered (committed
\* or refused), also when concurrent orders name the same products on their
\* lines in different orders: the locks are taken in one fixed order.
AdmittedOrderCompletes ==
    \A r \in Reqs : (req[r].pc = "locking") ~> (req[r].pc = "done")

\* Two requests in flight naming the same two products in opposite line order,
\* one of them holding a lock the other needs.
AdmittedOrderWitness ==
    /\ req[1].pc = "locking" /\ req[2].pc = "locking"
    /\ Len(req[1].items) = 2 /\ Len(req[2].items) = 2
    /\ req[1].items[1].productId # req[1].items[2].productId
    /\ req[2].items[1].productId = req[1].items[2].productId
    /\ req[2].items[2].productId = req[1].items[1].productId
    /\ req[2].held # {} /\ req[1].held = {}


\* C5: observer atomicity.  What a reader sees of the stock levels and of the
\* orders reflects the same commits: the Dashboard's figures show a product as
\* low on stock, with the stock it shows, exactly as the orders it shows have
\* left it.  (Under SpecDash each product starts with DashStock units, every
\* order the Dashboard has read is among its recentOrders, and only commits
\* change stock.)
DashboardSeesCommitsWhole ==
    stats # NoStats =>
        \A p \in Pids :
            LET left == DashStock - CommittedDemand(stats.recentOrders, p)
                shown == Listed(stats.lowStockProducts, p)
            IN IF left <= SeedProduct(DashStock).lowStockThreshold
               THEN shown.id = p /\ shown.stock = left
               ELSE shown.id = 0

\* C7: a stock mutation concurrent with an order decrement on the same product
\* is serializable, so a committed order's decrement is never silently lost.
\* Under SpecEdit the only stock mutations are product updates that carry the
\* stock their form read when the dialog opened: in either serial order with
\* the decrements they leave the stock alone, and the stock of every product
\* is what it started with less what the committed orders took.
DecrementNeverLost ==
    \A p \in Pids :
        products[p].exists =>
            products[p].stock = MaxStock - CommittedDemand(orders, p)

\* C9: order validation accepts a candidate order exactly when every line
\* resolves to an existing product, has quantity > 0, and has quantity <= that
\* product's currently known stock (the stock the page's product list gives
\* it); and what is submitted for commit is an order validation accepts.
ValidationAgainstKnownStock ==
    oModalOpen =>
        (validateOrder = "ok" <=>
            \A i \in DOMAIN orderItems :
                /\ Listed(oProducts, orderItems[i].productId).id # 0
                /\ orderItems[i].quantity > 0
                /\ orderItems[i].quantity
                        <= Listed(oProducts, orderItems[i].productId).stock)

\* The user chooses a product for line i of the order form.
LineChosen(i) ==
    /\ i \in DOMAIN orderItems /\ Len(orderItems') = Len(orderItems)
    /\ orderItems'[i].productId # orderItems[i].productId
    /\ orderItems'[i].productId # 0

\* Line i of the order form keeps its product (which the user may choose anew).
LineKept(i) ==
    /\ i \in DOMAIN orderItems /\ Len(orderItems') = Len(orderItems)
    /\ orderItems'[i].productId = orderItems[i].productId

\* The Orders page sends its order.
OrderSubmitted ==
    req[OrdersClient].pc = "idle" /\ req'[OrdersClient].pc = "locking"

\* C10: the item prices stored in a committed order are the prices captured
\* when the product was chosen for the line.  A line takes the price the
\* product list gives when the product is chosen and keeps it until it is
\* chosen again; the order is sent with the lines' prices and their total; a
\* commit stores the items and the total it was sent; and no step changes an
\* order already stored.
PricesAreSnapshots ==
    [][/\ \A i \in 1..MaxLines :
            /\ LineChosen(i) =>
                    orderItems'[i].price
                        = Listed(oProducts, orderItems'[i].productId).price
            /\ LineKept(i) =>
                    \/ orderItems'[i].price = orderItems[i].price
                    \/ /\ orderItems[i].productId # 0
                       /\ orderItems'[i].price
                            = Listed(oProducts, orderItems[i].productId).price
       /\ OrderSubmitted =>
            /\ Len(req'[OrdersClient].items) = Len(orderItems)
            /\ \A i \in DOMAIN orderItems :
                    req'[OrdersClient].items[i].price = orderItems[i].price
            /\ req'[OrdersClient].totalPrice = Total(orderItems)
       /\ \A r \in Reqs :
            CommitSucceeded(r) =>
                orders' = Append(orders, [items |-> req[r].items,
                                          totalPrice |-> req[r].totalPrice])
       /\ \A k \in DOMAIN orders :
            k \in DOMAIN orders' /\ orders'[k] = orders[k]]_vars

\* An order is stored whose product has since (or since its line was filled
\* in) taken another price.
PricesAreSnapshotsWitness ==
    \E k \in DOMAIN orders, i \in 1..MaxLines :
        /\ i \in DOMAIN orders[k].items
        /\ products[orders[k].items[i].productId].exists
        /\ orders[k].items[i].price # products[orders[k].items[i].productId].price
        /\ orders[k].totalPrice = Total(orders[k].items)

\* The sum over the lines of price times quantity.
RECURSIVE SumOfLines(_, _)
SumOfLines(items, n) ==
    IF n = 0 THEN 0
    ELSE items[n].price * items[n].quantity + SumOfLines(items, n - 1)

\* C11: for every order that exists in any reachable state, totalPrice equals
\* the sum over its items of price times quantity.
OrderTotalIsSumOfLines ==
    \A k \in DOMAIN orders :
        orders[k].totalPrice = SumOfLines(orders[k].items, Len(orders[k].items))

\* An order of two lines with different prices, one of them for two units.
OrderTotalWitness ==
    \E k \in DOMAIN orders :
        /\ Len(orders[k].items) = 2
        /\ orders[k].items[1].price # orders[k].items[2].price
        /\ orders[k].items[1].quantity = 2
        /\ orders[k].totalPrice
                = 2 * orders[k].items[1].price + orders[k].items[2].price

\* Some order has a line for product p.
Referenced(p) ==
    \E k \in DOMAIN orders, i \in 1..MaxLines :
        i \in DOMAIN orders[k].items /\ orders[k].items[i].productId = p

\* C12: deleteProduct on a product referenced by existing orders leaves the
\* order set unchanged: no order is deleted and every order keeps its items
\* (productId, price, quantity) and its totalPrice.
DeleteKeepsOrders ==
    [][\A p \in Pids :
            (products[p].exists /\ ~products'[p].exists /\ Referenced(p))
                => orders' = orders]_vars

\* An order has a line for a product that has been deleted.
DeleteKeepsOrdersWitness ==
    \E p \in Pids : Referenced(p) /\ ~products[p].exists

\* C13: every committed order has at least one item.  The open order form
\* always holds a line (the dialog opens with one and Remove shows only while
\* there are several), so no sequence of open-dialog, add-line, remove-line,
\* select-product, set-quantity and place-order actions submits an order with
\* an empty item list, and none is stored.
OrderHasAnItem ==
    /\ oModalOpen => Len(orderItems) >= 1
    /\ req[OrdersClient].pc # "idle" => Len(req[OrdersClient].items) >= 1
    /\ \A k \in DOMAIN orders : Len(orders[k].items) >= 1

\* An order of one line is stored, and the form is open again with a single
\* line, a product chosen on it.
OrderHasAnItemWitness ==
    /\ \E k \in DOMAIN orders : Len(orders[k].items) = 1
    /\ oModalOpen /\ Len(orderItems) = 1 /\ orderItems[1].productId # 0

\* The Low Stock dialog holds a product and a negative amount.
NegativeStockEntered ==
    /\ lModalOpen /\ selectedProduct.id # 0
    /\ IsNumberText(newStock) /\ ParseInt(newStock) < 0

\* C14: setStock with a new value < 0 fails: handleUpdateStock run on a
\* negative amount issues no update and leaves the product's stock and all
\* other state as they are.
NegativeStockRefused ==
    [][(NegativeStockEntered /\ LowStockSubmitEvent) => UNCHANGED vars]_vars

\* A negative amount stands in the dialog of a product the store holds with
\* its stock as it was listed.
NegativeStockWitness ==
    /\ NegativeStockEntered
    /\ StoreCanUpdate(selectedProduct.id)
    /\ products[selectedProduct.id].stock = selectedProduct.stock

\* The classifier's status: OutOfStock, LowStock or InStock, under the labels
\* the pages print.
ClassifierStatus(stock, threshold) ==
    IF stock = 0 THEN "Out of Stock"
    ELSE IF stock <= threshold THEN "Low Stock"
    ELSE "In Stock"

\* C15: the status is OutOfStock when stock = 0, LowStock when
\* 0 < stock <= lowStockThreshold and InStock when stock > lowStockThreshold,
\* and every view that shows a status shows this one: the badge of each row of
\* the Products table and the status of each row of the Low Stock table.
StatusShownIsClassifierStatus ==
    /\ \A i \in DOMAIN lowStockProducts :
            getStockStatus(lowStockProducts[i])
                = ClassifierStatus(lowStockProducts[i].stock,
                                   lowStockProducts[i].lowStockThreshold)
    /\ \A i \in DOMAIN pProducts :
            ProductsStatusBadge(pProducts[i])
                = ClassifierStatus(pProducts[i].stock, pProducts[i].lowStockThreshold)

\* The tiers of the classifier's urgency, and when each applies.
UrgencyTiers == {"critical", "high", "medium", "none"}

TierApplies(tier, stock, threshold) ==
    CASE tier = "critical" -> stock = 0
      [] tier = "high" -> 0 < stock /\ stock <= FloorHalf(threshold)
      [] tier = "medium" -> FloorHalf(threshold) < stock /\ stock <= threshold /\ 0 < stock
      [] tier = "none" -> stock > threshold

ClassifierUrgency(stock, threshold) ==
    CHOOSE tier \in UrgencyTiers : TierApplies(tier, stock, threshold)

\* The Low Stock page takes the answer of its fetch.
LowStockListed == lFetching /\ ~lFetching'

NameRank(name) == IF name = "a" THEN 1 ELSE 2

\* Row a may stand before row b: by urgency rank, then stock, then name.
DisplayedBefore(a, b) ==
    LET ra == urgencyOrder[getUrgencyLevel(a)]
        rb == urgencyOrder[getUrgencyLevel(b)]
    IN  \/ ra < rb
        \/ ra = rb /\ a.stock < b.stock
        \/ ra = rb /\ a.stock = b.stock /\ NameRank(a.name) <= NameRank(b.name)

\* C17: the low-stock display order is ascending by urgency rank (Critical
\* before High before Medium), ties broken by ascending stock and then by
\* product name, whatever order the products came in.
LowStockDisplayOrder ==
    \A i \in DOMAIN lowStockProducts, j \in DOMAIN lowStockProducts :
        i < j => DisplayedBefore(lowStockProducts[i], lowStockProducts[j])

\* getStats returns: both answers are in and the Dashboard takes the stats.
StatsReturned == dProductsRes.state = "ok" /\ dOrdersRes.state = "ok" /\ stats' # stats

\* The identities of the products of a list.
IdsOf(list) == {list[i].id : i \in DOMAIN list}

\* The products of a list whose status is LowStock or OutOfStock.
LowOrOutIds(list) ==
    {list[i].id : i \in {j \in DOMAIN list :
        ClassifierStatus(list[j].stock, list[j].lowStockThreshold)
            \in {"Low Stock", "Out of Stock"}}}

\* C18: getDashboardStats returns totalProducts = number of products,
\* totalOrders = number of orders, lowStockCount = the number of products whose
\* status is LowStock or OutOfStock, and lowStockProducts exactly that subset
\* (each product as it was read, once).
StatsCountWhatWasRead ==
    [][StatsReturned =>
        /\ stats'.totalProducts = Cardinality(IdsOf(dProductsRes.data))
        /\ stats'.totalOrders = Len(dOrdersRes.data)
        /\ stats'.lowStockCount = Cardinality(LowOrOutIds(dProductsRes.data))
        /\ IdsOf(stats'.lowStockProducts) = LowOrOutIds(dProductsRes.data)
        /\ Len(stats'.lowStockProducts) = stats'.lowStockCount
        /\ \A i \in DOMAIN stats'.lowStockProducts :
                stats'.lowStockProducts[i]
                    = Listed(dProductsRes.data, stats'.lowStockProducts[i].id)]_vars

\* The Dashboard shows two products, both low on stock (one of them out of
\* stock, one with its stock at its threshold), and two orders.
StatsCountWitness ==
    /\ stats # NoStats
    /\ stats.totalProducts = 2 /\ stats.totalOrders = 2 /\ stats.lowStockCount = 2
    /\ \E i, j \in DOMAIN stats.lowStockProducts :
            /\ stats.lowStockProducts[i].stock = 0
            /\ stats.lowStockProducts[j].stock = stats.lowStockProducts[j].lowStockThreshold
            /\ stats.lowStockProducts[j].stock > 0

\* C19: whatever order the orders are stored in, getDashboardStats.recentOrders
\* has length min(5, number of orders) and holds the orders with the latest
\* creation timestamps, most recent first.
RecentOrdersAreLatestFirst ==
    [][StatsReturned =>
        /\ Len(stats'.recentOrders) = Min(RecentCount, Len(dOrdersRes.data))
        /\ \A i \in DOMAIN stats'.recentOrders, j \in DOMAIN stats'.recentOrders :
                i < j => stats'.recentOrders[i].createdAt
                            > stats'.recentOrders[j].createdAt
        /\ \A i \in DOMAIN stats'.recentOrders, k \in DOMAIN dOrdersRes.data :
                \/ \E j \in DOMAIN stats'.recentOrders :
                        stats'.recentOrders[j] = dOrdersRes.data[k]
                \/ dOrdersRes.data[k].createdAt
                        < stats'.recentOrders[i].createdAt]_vars

\* A request of getStats is answered.
ProductsAnswered == dProductsRes.state = "pending" /\ dProductsRes'.state = "ok"

OrdersAnswered == dOrdersRes.state = "pending" /\ dOrdersRes'.state = "ok"

ListedNow ==
    LET held == {p \in Pids : products[p].exists}
        Nth(i) == CHOOSE p \in held : Cardinality({q \in held : q < p}) = i - 1
    IN  [i \in 1..Cardinality(held) |->
            [_id |-> Nth(i), id |-> Nth(i), name |-> products[Nth(i)].name,
             description |-> products[Nth(i)].description,
             price |-> products[Nth(i)].price, stock |-> products[Nth(i)].stock,
             lowStockThreshold |-> products[Nth(i)].lowStockThreshold]]

\* The list holds the products of the store as they are now, in some order.
HoldsCurrentProducts(list) ==
    {list[i] : i \in DOMAIN list} = {ListedNow[i] : i \in DOMAIN ListedNow}

\* The product lists the pages hold, each the result of a listProducts call.
ListsHeld ==
    (IF pFetching THEN {} ELSE {pProducts})
        \cup (IF oFetchingProducts THEN {} ELSE {oProducts})
        \cup (IF dProductsRes.state = "ok" THEN {dProductsRes.data} ELSE {})

\* C21: listProducts is idempotent.  Every listing is what the store holds
\* when it is answered, product by product and field by field, in the one
\* order the store lists in; so any two results that hold the products as
\* they still are (no mutation since either was read) are identical: same
\* products, same field values, same order.
ListProductsIdempotent ==
    /\ [][/\ pFetching /\ ~pFetching' => pProducts' = ListedNow
          /\ oFetchingProducts /\ ~oFetchingProducts' => oProducts' = ListedNow
          /\ ProductsAnswered => dProductsRes'.data = ListedNow]_vars
    /\ [](\A a \in ListsHeld, b \in ListsHeld :
            HoldsCurrentProducts(a) /\ HoldsCurrentProducts(b) => a = b)

\* Two pages hold a listing of two products, read at different moments (one
\* while an order in flight held a lock, the other by a Dashboard mounted
\* again), and no product has changed since.
ListProductsWitness ==
    /\ ~pFetching /\ Len(pProducts) = 2 /\ HoldsCurrentProducts(pProducts)
    /\ dProductsRes.state = "ok" /\ HoldsCurrentProducts(dProductsRes.data)
    /\ stats = NoStats /\ \E r \in Reqs : req[r].held # {}
    /\ Len(orders) = 1

\* The lines of the form that ask for more than their product has.
ShortLines == {i \in DOMAIN orderItems :
                  orderItems[i].quantity > orderItems[i].availableStock}

\* C22: when Place Order fails for insufficient stock, the failure names every
\* product of the order that is short, not only the first such line.
InsufficientStockNamesEveryProduct ==
    oModalOpen /\ PlaceOrderEnabled /\ validateOrder = "InsufficientStock" =>
        \A i \in ShortLines :
            ValidateToast(orderItems).productName = orderItems[i].productName

\* The required fields of the Add/Edit Product form that are missing.
MissingFields ==
    (IF formData.name = "" THEN {"name"} ELSE {})
        \cup {f \in {"price", "stock", "lowStockThreshold"} : formData[f] = <<>>}

\* C23: createProduct and updateProduct with a required field missing (name,
\* price, stock or lowStockThreshold) fail: handleSubmit run on such a form
\* sends no create and no update, the product set and everything else stay
\* as they are, and the dialog stays open with what was entered.
MissingFieldRefused ==
    [][(MissingFields # {} /\ ProductsSubmitEvent) => UNCHANGED vars]_vars

\* One field is missing and the others are filled in, in the Edit dialog of
\* a product the store holds.
MissingFieldWitness ==
    /\ pModalOpen /\ Cardinality(MissingFields) = 1
    /\ editingProduct.id # 0 /\ StoreCanUpdate(editingProduct.id)

\* The Low Stock dialog's update goes out: the dialog closes on a store that
\* has changed.
StockUpdateSent == lModalOpen /\ ~lModalOpen' /\ products' # products

\* C24: the Low Stock page's stock update changes the stock of the product in
\* the dialog to the amount entered and nothing else: that product's name,
\* description, price and lowStockThreshold, every other product and every
\* order are as before.
StockUpdateChangesOnlyStock ==
    [][StockUpdateSent =>
        /\ products' = [products EXCEPT ![selectedProduct.id].stock = ParseInt(newStock)]
        /\ UNCHANGED <<nextId, orders, req>>]_vars

\* A product has been restocked after it was repriced and after an order was
\* committed: it holds the new stock and still the new price, and the order
\* is still there.
StockUpdateWitness ==
    /\ \E p \in Pids : products[p].stock = 3 /\ products[p].price = 2
    /\ ~lModalOpen /\ lFetching /\ lowStockProducts # <<>>
    /\ Len(orders) = 1

\* C25: in the order form, whatever lines are added and removed, products
\* chosen from the options offered and quantities set, no two lines hold the
\* same product, and every product chosen had stock > 0 in the product list
\* when it was chosen.
FormLinesDistinctAndInStock ==
    /\ [](\A i \in DOMAIN orderItems, j \in DOMAIN orderItems :
            i # j /\ orderItems[i].productId # 0 =>
                orderItems[i].productId # orderItems[j].productId)
    /\ [](\A i \in DOMAIN orderItems :
            orderItems[i].productId # 0 => orderItems[i].availableStock > 0)
    /\ [][\A i \in 1..MaxLines :
            LineChosen(i) =>
                Listed(oProducts, orderItems'[i].productId).stock > 0]_vars

\* The form holds a line with a product chosen and a blank line for which
\* nothing is offered: the other product is listed with no stock.
FormLinesWitness ==
    /\ oModalOpen /\ Len(orderItems) = 2
    /\ orderItems[1].productId # 0 /\ orderItems[2].productId = 0
    /\ \E i \in DOMAIN oProducts : oProducts[i].stock = 0
    /\ availableProducts(0) = {}

\* The answer of the page's POST /orders is taken by handleSubmitOrder.
OrderAnswerTaken ==
    req[OrdersClient].pc = "done" /\ req'[OrdersClient].pc = "idle"

\* C26: Place Order has three outcomes.  Validation fails: no create request
\* goes out and nothing changes.  The create request fails: the dialog and
\* the order lines stay as they are and nothing is re-fetched.  It succeeds:
\* the order lines are cleared, the dialog closes, and the order list and the
\* product list are both re-fetched.  (When validation passes, the request
\* goes out with the form's lines and the form is left alone meanwhile.)
PlaceOrderOutcomes ==
    [][/\ (validateOrder # "ok" /\ handleSubmitOrder) => UNCHANGED vars
       /\ (validateOrder = "ok" /\ handleSubmitOrder) =>
            /\ req'[OrdersClient].pc = "locking"
            /\ req'[OrdersClient].items = OrderData.items
            /\ UNCHANGED <<products, nextId, orders, pageVars>>
       /\ (OrderAnswerTaken /\ req[OrdersClient].result.kind # "ok") =>
            UNCHANGED <<products, nextId, orders, pageVars>>
       /\ (OrderAnswerTaken /\ req[OrdersClient].result.kind = "ok") =>
            /\ orderItems' = <<>>
            /\ ~oModalOpen'
            /\ oFetchingOrders' /\ oFetchingProducts'
            /\ UNCHANGED <<products, nextId, orders, oProducts>>]_vars

\* After an order that succeeded (it is stored, and the lists were fetched
\* again or are being), the create request of a second order has failed and
\* its answer is about to be taken, the dialog open on the lines sent.
PlaceOrderWitness ==
    /\ Len(orders) = 1
    /\ req[OrdersClient].pc = "done" /\ req[OrdersClient].result.kind # "ok"
    /\ oModalOpen /\ orderItems # <<>> /\ validateOrder = "ok"

\* Every fetch of the Products page has been answered and every answer has
\* reached the page.
AllFetchesAnswered == ~pFetching /\ pInFlight = <<>>

\* C27: on the Products page, once every outstanding fetch has been answered,
\* the list displayed is the response to the fetch issued last, whatever order
\* the responses arrived in.  Here only this page changes the store and each
\* of its changes is followed by a fetch, so the response to the fetch issued
\* last is the list of the store as it is.
DisplayedListIsLatestFetch ==
    AllFetchesAnswered => pProducts = productApiGetAll

\* A request of the running getStats call has failed.
StatsRequestFailed == dProductsRes.state = "failed" \/ dOrdersRes.state = "failed"

\* The getStats call ends: fetchDashboardStats goes through its finally.
StatsCallEnds == dProductsRes.state # "none" /\ dProductsRes'.state = "none"

\* C28: if the products request or the orders request of getDashboardStats
\* fails, no stats are produced: the Dashboard keeps the stats it had before
\* the call, never stats made of the one request that succeeded; stats are
\* set only from two answers; and loading is false once the call has ended,
\* whether it succeeded or failed.
FailedStatsLeaveNothing ==
    /\ [][/\ (StatsRequestFailed /\ StatsCallEnds) => stats' = stats
          /\ stats' \notin {stats, NoStats} =>
                dProductsRes.state = "ok" /\ dOrdersRes.state = "ok"
          /\ StatsCallEnds => ~dLoading']_vars
    /\ [](dProductsRes.state = "none" /\ dOrdersRes.state = "none" => ~dLoading)

\* A call has ended in failure on a store that holds products and an order:
\* the Dashboard is not loading and has no stats.
FailedStatsWitness ==
    /\ dProductsRes.state = "none" /\ dOrdersRes.state = "none"
    /\ ~dLoading /\ stats = NoStats
    /\ Len(orders) >= 1

\* The products of the store with stock <= lowStockThreshold.
LowInStore ==
    {p \in Pids : products[p].exists /\ products[p].stock <= products[p].lowStockThreshold}

\* The products the Products page flags as low stock.
FlaggedOnProductsPage ==
    {pProducts[i].id : i \in {j \in DOMAIN pProducts : isLowStock(pProducts[j])}}

\* The three pages have read the store.
AllThreeHaveRead == ~pFetching /\ ~lFetching /\ stats # NoStats

\* C29: for every product set the three low-stock computations agree: the
\* products the Dashboard counts as low stock, those the Products page flags
\* and those the Low Stock page lists are the same set, the products with
\* stock <= lowStockThreshold, and each of them is shown with a status other
\* than In Stock on both pages that show one.
LowStockViewsAgree ==
    AllThreeHaveRead =>
        /\ IdsOf(stats.lowStockProducts) = LowInStore
        /\ stats.lowStockCount = Cardinality(LowInStore)
        /\ FlaggedOnProductsPage = LowInStore
        /\ IdsOf(lowStockProducts) = LowInStore
        /\ \A i \in DOMAIN lowStockProducts :
                getStockStatus(lowStockProducts[i]) # "In Stock"
        /\ \A i \in DOMAIN pProducts :
                pProducts[i].id \in LowInStore =>
                    /\ ProductsStatusBadge(pProducts[i]) # "In Stock"
                    /\ getStockStatus(pProducts[i]) # "In Stock"

\* The three pages have read a store holding a product whose stock is just
\* at its threshold and a product above its threshold.
LowStockViewsWitness ==
    /\ AllThreeHaveRead
    /\ \E p \in Pids : /\ products[p].exists /\ products[p].stock > 0
                       /\ products[p].stock = products[p].lowStockThreshold
    /\ \E p \in Pids : /\ products[p].exists
                       /\ products[p].stock > products[p].lowStockThreshold
    /\ Len(lowStockProducts) = 1 /\ stats.lowStockCount = 1

====
